---- MODULE Spec2Model ----
(***************************************************************************)
(* A model of app.py, the Streamlit script that turns an offer sheet into  *)
(* an email-ready HTML table.                                              *)
(*                                                                         *)
(* Text is a sequence of one-character tokens, so that formatting and      *)
(* parsing are computed character by character.  The pound and euro signs  *)
(* are the tokens Pound and Euro.                                          *)
(*                                                                         *)
(* A Python value is a record [t, n, s]:                                   *)
(*   t = "none"   None                                                     *)
(*   t = "int"    the int n                                                *)
(*   t = "bool"   the bool n (0 or 1)                                      *)
(*   t = "float"  the float n / 1000 (n counts thousandths)                *)
(*   t = "str"    the text s                                               *)
(*   t = "date"   the datetime of the day n = yyyymmdd, at midnight        *)
(*   t = "nan"    the float NaN that pandas puts where a value is missing  *)
(*                                                                         *)
(* Three specifications:                                                   *)
(*   SpecFormat  one call of format_value on every value and format of the *)
(*               bounds;                                                   *)
(*   SpecDetect  one run of the header scan on every grid of the bounds;   *)
(*   Spec        a session of the application: the script runs top to      *)
(*               bottom, step by step, and every interaction of the user   *)
(*               with a widget starts a new run.                           *)
(***************************************************************************)
EXTENDS Integers, Sequences, FiniteSets, TLC

VARIABLES
    fv_pc, fv_val, fv_fmt, fv_out,      \* one call of format_value
    hd_pc, hd_grid, hd_out,             \* one run of the header scan
    \* the session: what Streamlit keeps of the widgets between two runs
    uploaded,       \* the file in the uploader: "none", "corrupt" or a sheet
    hdrW,           \* the header row number_input: [id, val]
    colsW,          \* the column multiselect: [opts, val]
    imgW,           \* the image checkbox
    clicked,        \* the generate button was pressed for this run
    user_hdr,       \* history: the last header row the user typed, and for which file
    \* one run of the script, top to bottom
    pc, mapping_df, ws, auto_header, header_row, df, cols, use_images, merged,
    preview_rows, excel_rs, checks, preview_shown, html, exported, msg, err,
    rendered

fvars == <<fv_pc, fv_val, fv_fmt, fv_out>>
hvars == <<hd_pc, hd_grid, hd_out>>
session == <<uploaded, hdrW, colsW, imgW, clicked, user_hdr>>
locals == <<mapping_df, ws, auto_header, header_row, df, cols, use_images, merged,
            preview_rows, excel_rs, checks, preview_shown, html, exported, msg, err,
            rendered>>
avars == <<session, pc, locals>>
pure == <<fvars, hvars>>
vars == <<fvars, hvars, avars>>

\* ------------------------------------------------------------------ bounds
MaxTextLen == 3
MaxFmtLen == 3
MaxGridRows == 2
MaxWidth == 2
MaxHeaderPick == 3

\* ------------------------------------------------------------------ values
Pound == "POUND"
Euro == "EURO"
Dollar == "$"
CurrencySigns == {Pound, Euro, Dollar}

V(t, n, s) == [t |-> t, n |-> n, s |-> s]
NoneV == V("none", 0, <<>>)
NaNV == V("nan", 0, <<>>)
IntV(n) == V("int", n, <<>>)
BoolV(n) == V("bool", n, <<>>)
FloatV(n) == V("float", n, <<>>)
StrV(s) == V("str", 0, s)
DateV(n) == V("date", n, <<>>)

SeqsUpTo(S, n) == UNION {[1..k -> S] : k \in 0..n}

Abs(n) == IF n < 0 THEN -n ELSE n

\* ------------------------------------------------------------ number text
Digits == <<"0", "1", "2", "3", "4", "5", "6", "7", "8", "9">>
DigitChar(d) == Digits[d + 1]
IsDigit(c) == \E d \in 0..9 : DigitChar(d) = c
DigitVal(c) == CHOOSE d \in 0..9 : DigitChar(d) = c

RECURSIVE NatStr(_)
NatStr(n) == IF n < 10 THEN <<DigitChar(n)>>
             ELSE NatStr(n \div 10) \o <<DigitChar(n % 10)>>

IntStr(n) == IF n < 0 THEN <<"-">> \o NatStr(-n) ELSE NatStr(n)

Pad2(n) == <<DigitChar(n \div 10), DigitChar(n % 10)>>
Pad3(n) == <<DigitChar(n \div 100)>> \o Pad2(n % 100)

\* The "," of the format specification: the integer digits in groups of three.
RECURSIVE Grouped(_)
Grouped(n) == IF n < 1000 THEN NatStr(n)
              ELSE Grouped(n \div 1000) \o <<",">> \o Pad3(n % 1000)

\* f"{x:,.2f}" of the float x = m / 1000: rounded to the nearest hundredth,
\* the sign kept even when the rounded value is zero.  A float whose third
\* decimal is 5 rounds by its binary expansion; the inputs hold none.
Fixed2(m) ==
    LET cents == (Abs(m) + 5) \div 10
    IN  (IF m < 0 THEN <<"-">> ELSE <<>>)
            \o Grouped(cents \div 100) \o <<".">> \o Pad2(cents % 100)

\* repr of the float m / 1000: the shortest decimal, with at least one
\* fractional digit.
FracStr(r) == IF r = 0 THEN <<"0">>
              ELSE IF r % 100 = 0 THEN <<DigitChar(r \div 100)>>
              ELSE IF r % 10 = 0 THEN Pad2(r \div 10)
              ELSE Pad3(r)
FloatStr(m) == (IF m < 0 THEN <<"-">> ELSE <<>>)
                   \o NatStr(Abs(m) \div 1000) \o <<".">> \o FracStr(Abs(m) % 1000)

\* str(datetime): "yyyy-mm-dd 00:00:00".
DateStr(n) ==
    NatStr(n \div 10000) \o <<"-">> \o Pad2((n \div 100) % 100) \o <<"-">> \o Pad2(n % 100)
        \o <<" ", "0", "0", ":", "0", "0", ":", "0", "0">>

\* str(val)
Str(val) ==
    CASE val.t = "none" -> <<"N", "o", "n", "e">>
      [] val.t = "int" -> IntStr(val.n)
      [] val.t = "bool" -> IF val.n = 1 THEN <<"T", "r", "u", "e">>
                           ELSE <<"F", "a", "l", "s", "e">>
      [] val.t = "float" -> FloatStr(val.n)
      [] val.t = "nan" -> <<"n", "a", "n">>
      [] val.t = "str" -> val.s
      [] val.t = "date" -> DateStr(val.n)

\* ------------------------------------------------------------ float(val)
RECURSIVE DigitsVal(_)
DigitsVal(s) == IF s = <<>> THEN 0
                ELSE 10 * DigitsVal(SubSeq(s, 1, Len(s) - 1)) + DigitVal(s[Len(s)])

AllDigits(s) == \A i \in 1..Len(s) : IsDigit(s[i])

\* The thousandths of the fraction digits s (at most three of them).
FracVal(s) == CASE Len(s) = 0 -> 0
                [] Len(s) = 1 -> DigitsVal(s) * 100
                [] Len(s) = 2 -> DigitsVal(s) * 10
                [] OTHER -> DigitsVal(SubSeq(s, 1, 3))

\* An unsigned decimal literal: digits, with at most one point among them and
\* at least one digit.
PointAt(s) == {i \in 1..Len(s) : s[i] = "."}
IsDecimal(s) ==
    IF PointAt(s) = {} THEN s # <<>> /\ AllDigits(s)
    ELSE LET p == CHOOSE i \in PointAt(s) : TRUE
         IN  /\ Cardinality(PointAt(s)) = 1
             /\ Len(s) > 1
             /\ AllDigits(SubSeq(s, 1, p - 1))
             /\ AllDigits(SubSeq(s, p + 1, Len(s)))
DecimalVal(s) ==
    IF PointAt(s) = {} THEN DigitsVal(s) * 1000
    ELSE LET p == CHOOSE i \in PointAt(s) : TRUE
         IN  DigitsVal(SubSeq(s, 1, p - 1)) * 1000 + FracVal(SubSeq(s, p + 1, Len(s)))

\* float(text): an optional sign, then a decimal literal; anything else is a
\* ValueError.  (Exponents, "inf", "nan", "_" and surrounding blanks need
\* characters the modelled texts do not hold.)
ParseFloat(s) ==
    LET signed == s # <<>> /\ s[1] \in {"-", "+"}
        body == IF signed THEN Tail(s) ELSE s
    IN  IF IsDecimal(body)
        THEN [ok |-> TRUE,
              n |-> IF signed /\ s[1] = "-" THEN -DecimalVal(body) ELSE DecimalVal(body)]
        ELSE [ok |-> FALSE, n |-> 0]

\* float(val): [ok |-> FALSE] stands for the TypeError or ValueError raised.
FloatOf(val) ==
    CASE val.t \in {"int", "bool"} -> [ok |-> TRUE, n |-> val.n * 1000]
      [] val.t = "float" -> [ok |-> TRUE, n |-> val.n]
      [] val.t = "str" -> ParseFloat(val.s)
      [] OTHER -> [ok |-> FALSE, n |-> 0]

\* ---------------------------------------------------------- format_value
Contains(fmt, c) == \E i \in 1..Len(fmt) : fmt[i] = c

\* return f"<sign>{float(val):,.2f}", or the exception float(val) raises.
CurrencyReturn(sign, val) ==
    IF FloatOf(val).ok
    THEN [kind |-> "return", text |-> <<sign>> \o Fixed2(FloatOf(val).n)]
    ELSE [kind |-> "raise", text |-> <<>>]

\* Mutant of TryBody: the dollar sign is tested first.
TryBodyDollarFirst(val, fmt) ==
    IF Contains(fmt, Dollar) THEN CurrencyReturn(Dollar, val)
    ELSE IF Contains(fmt, Pound) THEN CurrencyReturn(Pound, val)
    ELSE IF Contains(fmt, Euro) THEN CurrencyReturn(Euro, val)
    ELSE IF val.t = "float" THEN [kind |-> "return", text |-> Fixed2(val.n)]
    ELSE [kind |-> "fall", text |-> <<>>]

\* Mutant of TryBody: only floats with a fractional part get two decimals.
TryBodyFractionOnly(val, fmt) ==
    IF Contains(fmt, Pound) THEN CurrencyReturn(Pound, val)
    ELSE IF Contains(fmt, Euro) THEN CurrencyReturn(Euro, val)
    ELSE IF Contains(fmt, Dollar) THEN CurrencyReturn(Dollar, val)
    ELSE IF val.t = "float" /\ val.n % 1000 # 0
         THEN [kind |-> "return", text |-> Fixed2(val.n)]
    ELSE [kind |-> "fall", text |-> <<>>]

\* The body of the try block: it returns, raises, or falls through.
TryBody(val, fmt) ==
    IF Contains(fmt, Pound) THEN CurrencyReturn(Pound, val)
    ELSE IF Contains(fmt, Euro) THEN CurrencyReturn(Euro, val)
    ELSE IF Contains(fmt, Dollar) THEN CurrencyReturn(Dollar, val)
    ELSE IF val.t = "float" THEN [kind |-> "return", text |-> Fixed2(val.n)]
    ELSE [kind |-> "fall", text |-> <<>>]

\* Mutant of ExceptPass: no except clause, the exception propagates.
ExceptNothing(body) == body

\* The bare except: every exception of the try block is swallowed.
ExceptPass(body) == IF body.kind = "raise" THEN [kind |-> "fall", text |-> <<>>] ELSE body

\* format_value(val, fmt): [raised, text].
format_value(val, fmt) ==
    IF val.t = "none" THEN [raised |-> FALSE, text |-> <<>>]
    ELSE LET body == ExceptPass(TryBody(val, fmt))
         IN  CASE body.kind = "return" -> [raised |-> FALSE, text |-> body.text]
               [] body.kind = "raise" -> [raised |-> TRUE, text |-> <<>>]
               [] OTHER -> [raised |-> FALSE, text |-> Str(val)]

\* -------------------------------------------- inputs of format_value
TextAlphabet == {"1", ".", "-", "W"}
FmtAlphabet == {Pound, Euro, Dollar, "0"}
Texts == SeqsUpTo(TextAlphabet, MaxTextLen)
Formats == SeqsUpTo(FmtAlphabet, MaxFmtLen)
SampleInts == {0, 3, 1000, -1234567}
SampleFloats == {0, 3000, 1234500, 9990, 999996, -4, -2500, 1234567891}
SampleDates == {20240131}
Values ==
    {NoneV} \cup {IntV(n) : n \in SampleInts} \cup {FloatV(n) : n \in SampleFloats}
        \cup {BoolV(n) : n \in {0, 1}} \cup {DateV(n) : n \in SampleDates}
        \cup {StrV(s) : s \in Texts}

FormatCall ==
    /\ fv_pc = "call"
    /\ fv_out' = format_value(fv_val, fv_fmt)
    /\ fv_pc' = "returned"
    /\ UNCHANGED <<fv_val, fv_fmt>>

FormatNext == FormatCall /\ UNCHANGED <<hvars, avars>>

\* ------------------------------------------------- header row detection
ScanRows == 20
DefaultHeader == 1

\* v not in (None, "")
NonEmpty(v) == ~(v = NoneV \/ v = StrV(<<>>))

NonEmptyCount(vals) == Cardinality({k \in 1..Len(vals) : NonEmpty(vals[k])})

\* Mutant of Qualifies: at least half instead of more than half.
QualifiesAtLeastHalf(vals) == 2 * NonEmptyCount(vals) >= Len(vals)

\* sum(1 for v in vals if v not in (None, "")) > len(vals)/2
Qualifies(vals) == 2 * NonEmptyCount(vals) > Len(vals)

\* ws.max_column: the widest stored row, and 1 for a sheet with no cells.
RECURSIVE MaxLen(_)
MaxLen(rows) == IF rows = <<>> THEN 0
                ELSE LET m == MaxLen(Tail(rows))
                     IN  IF Len(Head(rows)) > m THEN Len(Head(rows)) ELSE m
MaxColumn(rows) == IF MaxLen(rows) = 0 THEN 1 ELSE MaxLen(rows)

\* [c.value for c in ws[i]]: a row below the stored ones reads as all None.
WsRow(rows, i) == IF i <= Len(rows) THEN rows[i]
                  ELSE [k \in 1..MaxColumn(rows) |-> NoneV]

\* Mutant of ScanFrom: no break, so the last qualifying row wins.
RECURSIVE ScanFromNoBreak(_, _)
ScanFromNoBreak(rows, i) ==
    IF i > ScanRows THEN DefaultHeader
    ELSE LET later == ScanFromNoBreak(rows, i + 1)
         IN  IF Qualifies(WsRow(rows, i))
                    /\ ~(\E j \in (i + 1)..ScanRows : Qualifies(WsRow(rows, j)))
             THEN i ELSE later

\* The loop over range(1, 21) from row i on: the first qualifying row breaks
\* the loop; auto_header keeps its initial value when the loop runs out.
RECURSIVE ScanFrom(_, _)
ScanFrom(rows, i) ==
    IF i > ScanRows THEN DefaultHeader
    ELSE IF Qualifies(WsRow(rows, i)) THEN i
    ELSE ScanFrom(rows, i + 1)

auto_header_of(rows) == ScanFrom(rows, 1)

\* The grids of the scan: what ws[i] yields row by row, of any widths.
GridCells == {NoneV, StrV(<<>>), StrV(<<"W">>), IntV(0)}
GridRowsSet == SeqsUpTo(GridCells, MaxWidth)
Grids == SeqsUpTo(GridRowsSet, MaxGridRows)

DetectRun ==
    /\ hd_pc = "scan"
    /\ hd_out' = auto_header_of(hd_grid)
    /\ hd_pc' = "detected"
    /\ UNCHANGED hd_grid

DetectNext == DetectRun /\ UNCHANGED <<fvars, avars>>

\* ------------------------------------------------------------ worksheets
\* A worksheet is a sequence of rows of cells [v, f]: the value and the
\* number format.  openpyxl pads every row to max_column.
General == <<"G", "e", "n", "e", "r", "a", "l">>
PoundFmt == <<Pound, "#", ",", "#", "#", "0", ".", "0", "0">>
\* Excel's euro format names the currency in a [$...] block.
EuroFmt == <<"[", "$", Euro, "-", "2", "]", " ", "#", ",", "#", "#", "0", ".", "0", "0">>

Cell(v, f) == [v |-> v, f |-> f]
G(v) == Cell(v, General)
Blank == G(NoneV)

Code == <<"C", "o", "d", "e">>
NameCol == <<"N", "a", "m", "e">>
PriceCol == <<"P", "r", "i", "c", "e">>
CodeA1 == <<"A", "1">>
CodeB2 == <<"B", "2">>
CodeC3 == <<"C", "3">>
CodeD4 == <<"D", "4">>
Widget == <<"W", "i", "d", "g", "e", "t">>
Gadget == <<"G", "a", "d", "g", "e", "t">>
Bolt == <<"B", "o", "l", "t">>
Offer == <<"O", "f", "f", "e", "r">>

\* Header in row 1, and a blank row between the two products.
SheetBlanks ==
    << <<G(StrV(Code)), G(StrV(NameCol)), G(StrV(PriceCol))>>,
       <<G(StrV(CodeA1)), G(StrV(Widget)), Cell(FloatV(9990), PoundFmt)>>,
       <<Blank, Blank, Blank>>,
       <<G(StrV(CodeB2)), G(StrV(Gadget)), Cell(FloatV(1234500), PoundFmt)>> >>
\* A title row above the header.
SheetTitled ==
    << <<G(StrV(Offer)), Blank, Blank>>,
       <<G(StrV(Code)), G(StrV(NameCol)), G(StrV(PriceCol))>>,
       <<G(StrV(CodeA1)), G(StrV(Widget)), Cell(FloatV(9990), EuroFmt)>>,
       <<G(StrV(CodeC3)), G(StrV(Bolt)), G(IntV(3))>> >>
\* No Code column.
SheetNoCode ==
    << <<G(StrV(NameCol)), G(StrV(PriceCol))>>,
       <<G(StrV(Widget)), Cell(FloatV(9990), PoundFmt)>> >>

SheetIds == {"blanks", "titled", "nocode"}
Files == SheetIds \cup {"corrupt"}
Sheet(id) == CASE id = "blanks" -> SheetBlanks
               [] id = "titled" -> SheetTitled
               [] id = "nocode" -> SheetNoCode

\* ws.cell(row=r, column=c): a cell the file does not hold is empty, General.
CellAt(sheet, r, c) ==
    IF r \in 1..Len(sheet) /\ c \in 1..Len(sheet[r]) THEN sheet[r][c] ELSE Blank

\* [c.value for c in ws[r]] for the stored rows.
SheetValues(sheet) == [r \in 1..Len(sheet) |-> [c \in 1..Len(sheet[r]) |-> sheet[r][c].v]]

\* ---------------------------------------------------------- mapping.csv
UrlA == <<"h", "t", "t", "p", ":", "/", "/", "a">>
UrlB == <<"h", "t", "t", "p", ":", "/", "/", "b">>
UrlC == <<"h", "t", "t", "p", ":", "/", "/", "c">>
\* pd.read_csv of a readable mapping.csv with both columns: a duplicated
\* Code, and a Code whose Image URL cell is empty.
MappingRows ==
    << [code |-> StrV(CodeA1), url |-> StrV(UrlA)],
       [code |-> StrV(CodeA1), url |-> StrV(UrlB)],
       [code |-> StrV(CodeC3), url |-> StrV(UrlC)],
       [code |-> StrV(CodeD4), url |-> NaNV] >>
MappingFiles == {"unreadable", "nocols", "ok"}

\* drop_duplicates(subset=["Code"], keep="first")
DropDuplicates(rows) ==
    LET First(i) == \A j \in 1..(i - 1) : rows[j].code # rows[i].code
        idx == SelectSeq([i \in 1..Len(rows) |-> i], First)
    IN  [k \in 1..Len(idx) |-> rows[idx[k]]]

\* ------------------------------------------------------------- pandas
IsNA(v) == v \in {NoneV, NaNV, StrV(<<>>)}
Unnamed(c) == StrV(<<"Unnamed", ":", " ", DigitChar(c - 1)>>)
IsUnnamed(name) == name.t = "str" /\ name.s # <<>> /\ name.s[1] = "Unnamed"

NoDf == [ok |-> FALSE, err |-> "", columns |-> <<>>, index |-> <<>>, rows |-> <<>>]

\* pd.read_excel(header=h-1) and the three cleaning lines after it: row h
\* names the columns, the rows below it are the data; rows, then columns,
\* that are wholly empty are dropped; so are the columns pandas named
\* "Unnamed: k".  A header below the last row raises, and so does
\* ~df.columns.str.match when a column name is not text.
\* (The modelled sheets hold no repeated header and no empty rows at the end.)
ReadAndClean(sheet, h) ==
    IF h > Len(sheet) THEN [NoDf EXCEPT !.err = "ValueError"]
    ELSE
    LET data == SheetValues(sheet)
        width == Len(data[h])
        names == [c \in 1..width |-> IF IsNA(data[h][c]) THEN Unnamed(c) ELSE data[h][c]]
        KeepRow(r) == \E c \in 1..width : ~IsNA(data[r][c])
        rowIdx == SelectSeq([k \in 1..(Len(data) - h) |-> h + k], KeepRow)
        KeepCol(c) == \E k \in 1..Len(rowIdx) : ~IsNA(data[rowIdx[k]][c])
        colIdx == SelectSeq([c \in 1..width |-> c], KeepCol)
        Named(c) == ~IsUnnamed(names[c])
        named == SelectSeq(colIdx, Named)
    IN  IF \E k \in 1..Len(colIdx) : names[colIdx[k]].t # "str"
        THEN [NoDf EXCEPT !.err = "TypeError"]
        ELSE [ok |-> TRUE, err |-> "",
              columns |-> [k \in 1..Len(named) |-> names[named[k]].s],
              index |-> [k \in 1..Len(rowIdx) |-> rowIdx[k] - h - 1],
              rows |-> [k \in 1..Len(rowIdx) |->
                          [j \in 1..Len(named) |->
                              IF IsNA(data[rowIdx[k]][named[j]]) THEN NaNV
                              ELSE data[rowIdx[k]][named[j]]]]]

\* list.index: the first position of x in the sequence, 0 when it has none.
IndexOf(seq, x) ==
    IF \E i \in 1..Len(seq) : seq[i] = x
    THEN CHOOSE i \in 1..Len(seq) : seq[i] = x /\ \A j \in 1..(i - 1) : seq[j] # x
    ELSE 0

\* df[cols]: the rows of the frame, the selected columns in selection order.
df_view_of(frame, sel) ==
    [k \in 1..Len(frame.rows) |->
        [j \in 1..Len(sel) |-> frame.rows[k][IndexOf(frame.columns, sel[j])]]]

\* pd.merge(df_view, mapping_df[["Code","Image URL"]], how="left", on="Code",
\* validate="many_to_one"): every left row, in order, with the Image URL of
\* the mapping row of its Code, NaN when the mapping has none.
LeftMerge(view, sel, mapping) ==
    LET key == IndexOf(sel, Code)
        Url(row) == IF \E m \in 1..Len(mapping) : mapping[m].code = row[key]
                    THEN mapping[CHOOSE m \in 1..Len(mapping) : mapping[m].code = row[key]].url
                    ELSE NaNV
    IN  [k \in 1..Len(view) |-> Append(view[k], Url(view[k]))]

\* merged = df_view.copy(); merged["Image URL"] = ""
NoImages(view) == [k \in 1..Len(view) |-> Append(view[k], StrV(<<>>))]

\* -------------------------------------------------------------- url_ok
\* What requests.head does: a response with a status, or an exception
\* (no connection, a timeout after 2 seconds).
NotCalled == [kind |-> "none", status |-> 0]
Responses == {[kind |-> "status", status |-> c] : c \in {200, 399, 400, 404}}
                 \cup {[kind |-> "error", status |-> 0]}

\* Mutant of url_ok: status 400 passes.
url_ok_upto400(resp) == IF resp.kind = "error" THEN FALSE ELSE resp.status <= 400

url_ok(resp) == IF resp.kind = "error" THEN FALSE ELSE resp.status < 400

ImgHtml(url) == <<"<img src=\"">> \o url \o <<"\" style=\"height:60px; width:auto;\" />">>

\* ------------------------------------------------------------- widgets
MaxHeaderInput == 20
NoHdr == [id |-> 0, val |-> 0]
NoCols == [opts |-> <<>>, val |-> <<>>]
NoUser == [file |-> "none", val |-> 0]
NoHtml == [made |-> FALSE, head |-> <<>>, rows |-> <<>>]

\* Mutant of number_input: every run shows the suggestion again.
number_input_reset(w, value) == [id |-> value, val |-> value]

\* st.number_input(label, min_value=1, max_value=20, value=auto_header) with no
\* key: the widget is identified by its arguments, so it keeps what the user
\* typed for as long as the suggested value is the same, and is a new widget,
\* showing the suggestion, when the suggestion changes.
number_input(w, value) == IF w.id = value THEN w ELSE [id |-> value, val |-> value]

\* st.multiselect(label, options=list(df.columns), default=list(df.columns)).
multiselect(w, options) == IF w.opts = options THEN w ELSE [opts |-> options, val |-> options]

Remove(seq, x) == SelectSeq(seq, LAMBDA y : y # x)
Range(seq) == {seq[i] : i \in 1..Len(seq)}

\* ------------------------------------------------------ one run of app.py
Terminal == {"done", "stopped", "crashed"}

\* The page is empty and no local is bound when a run starts.
FreshLocals ==
    /\ mapping_df' = <<>>
    /\ ws' = <<>>
    /\ auto_header' = 0
    /\ header_row' = 0
    /\ df' = NoDf
    /\ cols' = <<>>
    /\ use_images' = FALSE
    /\ merged' = <<>>
    /\ preview_rows' = <<>>
    /\ excel_rs' = <<>>
    /\ checks' = <<>>
    /\ preview_shown' = FALSE
    /\ html' = NoHtml
    /\ exported' = FALSE
    /\ msg' = ""
    /\ err' = ""
    /\ rendered' = {}

\* The run ends, by st.stop() or at the last line: Streamlit forgets the
\* state of every widget the run did not render.  (The button reads as
\* pressed until the next run starts.)
EndRun(how, shown, h, c) ==
    /\ pc' = how
    /\ rendered' = shown
    /\ uploaded' = IF "file" \in shown THEN uploaded ELSE "none"
    /\ hdrW' = IF "header" \in shown THEN h ELSE NoHdr
    /\ colsW' = IF "cols" \in shown THEN c ELSE NoCols
    /\ imgW' = IF "images" \in shown THEN imgW ELSE FALSE
    /\ user_hdr' = IF "file" \in shown /\ "header" \in shown THEN user_hdr ELSE NoUser
    /\ UNCHANGED clicked

\* An exception nothing catches ends the run where it is raised; the session
\* keeps the state of its widgets.
Crash(e, shown) ==
    /\ pc' = "crashed"
    /\ err' = e
    /\ rendered' = shown
    /\ UNCHANGED clicked

\* Lines 45-54: read mapping.csv, check its columns, drop the duplicates.
LoadMapping ==
    /\ UNCHANGED pure
    /\ pc = "mapping"
    /\ \E file \in MappingFiles :
          \/ /\ file = "unreadable"
             /\ msg' = "Could not read mapping.csv"
             /\ EndRun("stopped", rendered, hdrW, colsW)
             /\ UNCHANGED mapping_df
          \/ /\ file = "nocols"
             /\ msg' = "mapping.csv must have 'Code' and 'Image URL' columns"
             /\ EndRun("stopped", rendered, hdrW, colsW)
             /\ UNCHANGED mapping_df
          \/ /\ file = "ok"
             /\ mapping_df' = DropDuplicates(MappingRows)
             /\ pc' = "upload"
             /\ UNCHANGED <<session, msg, rendered>>
    /\ UNCHANGED <<ws, auto_header, header_row, df, cols, use_images, merged,
                   preview_rows, excel_rs, checks, preview_shown, html, exported, err>>

\* Lines 57-63: the uploader, and openpyxl.load_workbook of the upload.
LoadOffer ==
    /\ UNCHANGED pure
    /\ pc = "upload"
    /\ \/ /\ uploaded = "none"
          /\ msg' = "Please upload your offer to proceed to the next step."
          /\ EndRun("stopped", rendered \cup {"file"}, hdrW, colsW)
          /\ UNCHANGED <<ws, err>>
       \/ /\ uploaded = "corrupt"
          /\ Crash("BadZipFile", rendered \cup {"file"})
          /\ UNCHANGED <<uploaded, hdrW, colsW, imgW, user_hdr, ws, msg>>
       \/ /\ uploaded \in SheetIds
          /\ ws' = Sheet(uploaded)
          /\ rendered' = rendered \cup {"file"}
          /\ pc' = "detect"
          /\ UNCHANGED <<session, msg, err>>
    /\ UNCHANGED <<mapping_df, auto_header, header_row, df, cols, use_images, merged,
                   preview_rows, excel_rs, checks, preview_shown, html, exported>>

\* Lines 66-75: the scan of the first 20 rows, then the number input that
\* shows its result and returns the header row in use.
DetectHeader ==
    /\ UNCHANGED pure
    /\ pc = "detect"
    /\ auto_header' = auto_header_of(SheetValues(ws))
    /\ hdrW' = number_input(hdrW, auto_header')
    /\ header_row' = hdrW'.val
    /\ rendered' = rendered \cup {"header"}
    /\ pc' = "read"
    /\ UNCHANGED <<uploaded, colsW, imgW, clicked, user_hdr>>
    /\ UNCHANGED <<mapping_df, ws, df, cols, use_images, merged, preview_rows, excel_rs,
                   checks, preview_shown, html, exported, msg, err>>

\* Lines 78-84: parse the sheet below the header row and clean it.
ReadData ==
    /\ UNCHANGED pure
    /\ pc = "read"
    /\ LET frame == ReadAndClean(ws, header_row)
       IN  \/ /\ ~frame.ok
              /\ Crash(frame.err, rendered)
              /\ UNCHANGED <<uploaded, hdrW, colsW, imgW, user_hdr, df>>
           \/ /\ frame.ok
              /\ df' = frame
              /\ pc' = "select"
              /\ UNCHANGED <<session, err, rendered>>
    /\ UNCHANGED <<mapping_df, ws, auto_header, header_row, cols, use_images, merged,
                   preview_rows, excel_rs, checks, preview_shown, html, exported, msg>>

\* Lines 87-95: the column multiselect; an empty selection stops the run.
SelectColumns ==
    /\ UNCHANGED pure
    /\ pc = "select"
    /\ LET w == multiselect(colsW, df.columns)
       IN  /\ cols' = w.val
           /\ \/ /\ w.val = <<>>
                 /\ msg' = "Select at least one column."
                 /\ EndRun("stopped", rendered \cup {"cols"}, hdrW, w)
              \/ /\ w.val # <<>>
                 /\ colsW' = w
                 /\ rendered' = rendered \cup {"cols"}
                 /\ pc' = "merge"
                 /\ UNCHANGED <<uploaded, hdrW, imgW, clicked, user_hdr, msg>>
    /\ UNCHANGED <<mapping_df, ws, auto_header, header_row, df, use_images, merged,
                   preview_rows, excel_rs, checks, preview_shown, html, exported, err>>

\* Lines 98-109: the image checkbox, and the merge with the mapping.  Merging
\* on "Code" raises KeyError when the selected columns hold no "Code".
MergeImages ==
    /\ UNCHANGED pure
    /\ pc = "merge"
    /\ use_images' = imgW
    /\ \/ /\ imgW
          /\ Code \notin Range(cols)
          /\ Crash("KeyError", rendered \cup {"images"})
          /\ UNCHANGED <<uploaded, hdrW, colsW, imgW, user_hdr, merged>>
       \/ /\ imgW
          /\ Code \in Range(cols)
          /\ merged' = LeftMerge(df_view_of(df, cols), cols, mapping_df)
          /\ rendered' = rendered \cup {"images"}
          /\ pc' = "preview"
          /\ UNCHANGED <<session, err>>
       \/ /\ ~imgW
          /\ merged' = NoImages(df_view_of(df, cols))
          /\ rendered' = rendered \cup {"images"}
          /\ pc' = "preview"
          /\ UNCHANGED <<session, err>>
    /\ UNCHANGED <<mapping_df, ws, auto_header, header_row, df, cols, preview_rows,
                   excel_rs, checks, preview_shown, html, exported, msg>>

\* excel_headers = [c.value for c in ws[header_row]]
excel_headers_of(sheet, h) == WsRow(SheetValues(sheet), h)

\* Lines 122-125: the cells of one preview row, read from worksheet row excel_r.
RowCells(sheet, h, sel, excel_r) ==
    [j \in 1..Len(sel) |->
        LET c == IndexOf(excel_headers_of(sheet, h), StrV(sel[j]))
        IN  format_value(CellAt(sheet, excel_r, c).v, CellAt(sheet, excel_r, c).f).text]

\* Lines 114-126: one pass of the loop over the merged rows.
PreviewRow ==
    /\ UNCHANGED pure
    /\ pc = "preview"
    /\ Len(preview_rows) < Len(merged)
    /\ LET idx == Len(preview_rows)
           row == merged[idx + 1]
           excel_r == header_row + 1 + idx
           url == row[Len(cols) + 1]
           asks == use_images /\ url.t = "str"
       IN  \E resp \in (IF asks THEN Responses ELSE {NotCalled}) :
              LET img_html == IF asks /\ url_ok(resp) THEN ImgHtml(url.s) ELSE <<>>
                  cells == (IF use_images THEN <<img_html>> ELSE <<>>)
                               \o RowCells(ws, header_row, cols, excel_r)
              IN  /\ preview_rows' = Append(preview_rows, cells)
                  /\ excel_rs' = Append(excel_rs, excel_r)
                  /\ checks' = Append(checks, resp)
    /\ UNCHANGED <<session, pc, mapping_df, ws, auto_header, header_row, df, cols,
                   use_images, merged, preview_shown, html, exported, msg, err, rendered>>

\* Lines 127-137: the preview table is shown.
ShowPreview ==
    /\ UNCHANGED pure
    /\ pc = "preview"
    /\ Len(preview_rows) = Len(merged)
    /\ preview_shown' = TRUE
    /\ pc' = "generate"
    /\ UNCHANGED <<session, mapping_df, ws, auto_header, header_row, df, cols, use_images,
                   merged, preview_rows, excel_rs, checks, html, exported, msg, err,
                   rendered>>

preview_cols_of(images, sel) == (IF images THEN <<<<"I", "m", "a", "g", "e">>>> ELSE <<>>) \o sel

\* Lines 141-163: the table, one <th> per preview column and one <tr> of <td>
\* per preview row (the widths and the colours are left out).
build_html(images, sel, rows) ==
    [made |-> TRUE, head |-> preview_cols_of(images, sel), rows |-> rows]

\* Lines 140-189: the button; pressed, it builds the HTML and the downloads.
Generate ==
    /\ UNCHANGED pure
    /\ pc = "generate"
    /\ \/ /\ clicked
          /\ html' = build_html(use_images, cols, preview_rows)
          /\ exported' = TRUE
       \/ /\ ~clicked
          /\ UNCHANGED <<html, exported>>
    /\ EndRun("done", rendered \cup {"button"}, hdrW, colsW)
    /\ UNCHANGED <<mapping_df, ws, auto_header, header_row, df, cols, use_images, merged,
                   preview_rows, excel_rs, checks, preview_shown, msg, err>>

\* ------------------------------------------------------------ the user
\* Every interaction starts a new run from the top.
Restart == pc' = "mapping" /\ FreshLocals

Rerun ==
    /\ UNCHANGED pure
    /\ pc \in Terminal
    /\ Restart
    /\ clicked' = FALSE
    /\ UNCHANGED <<uploaded, hdrW, colsW, imgW, user_hdr>>

Upload ==
    /\ UNCHANGED pure
    /\ pc \in Terminal
    /\ "file" \in rendered
    /\ \E f \in Files :
          /\ f # uploaded
          /\ uploaded' = f
    /\ user_hdr' = NoUser
    /\ Restart
    /\ clicked' = FALSE
    /\ UNCHANGED <<hdrW, colsW, imgW>>

RemoveFile ==
    /\ UNCHANGED pure
    /\ pc \in Terminal
    /\ "file" \in rendered
    /\ uploaded # "none"
    /\ uploaded' = "none"
    /\ user_hdr' = NoUser
    /\ Restart
    /\ clicked' = FALSE
    /\ UNCHANGED <<hdrW, colsW, imgW>>

SetHeader ==
    /\ UNCHANGED pure
    /\ pc \in Terminal
    /\ "header" \in rendered
    /\ \E h \in 1..MaxHeaderPick :
          /\ h <= MaxHeaderInput
          /\ h # hdrW.val
          /\ hdrW' = [hdrW EXCEPT !.val = h]
          /\ user_hdr' = [file |-> uploaded, val |-> h]
    /\ Restart
    /\ clicked' = FALSE
    /\ UNCHANGED <<uploaded, colsW, imgW>>

Deselect ==
    /\ UNCHANGED pure
    /\ pc \in Terminal
    /\ "cols" \in rendered
    /\ \E c \in Range(colsW.val) : colsW' = [colsW EXCEPT !.val = Remove(colsW.val, c)]
    /\ Restart
    /\ clicked' = FALSE
    /\ UNCHANGED <<uploaded, hdrW, imgW, user_hdr>>

SelectMore ==
    /\ UNCHANGED pure
    /\ pc \in Terminal
    /\ "cols" \in rendered
    /\ \E c \in Range(colsW.opts) \ Range(colsW.val) :
          colsW' = [colsW EXCEPT !.val = Append(colsW.val, c)]
    /\ Restart
    /\ clicked' = FALSE
    /\ UNCHANGED <<uploaded, hdrW, imgW, user_hdr>>

ToggleImages ==
    /\ UNCHANGED pure
    /\ pc \in Terminal
    /\ "images" \in rendered
    /\ imgW' = ~imgW
    /\ Restart
    /\ clicked' = FALSE
    /\ UNCHANGED <<uploaded, hdrW, colsW, user_hdr>>

PressGenerate ==
    /\ UNCHANGED pure
    /\ pc = "done"
    /\ "button" \in rendered
    /\ clicked' = TRUE
    /\ Restart
    /\ UNCHANGED <<uploaded, hdrW, colsW, imgW, user_hdr>>

\* ------------------------------------------------------- specifications
Next ==
    \/ LoadMapping
    \/ LoadOffer
    \/ DetectHeader
    \/ ReadData
    \/ SelectColumns
    \/ MergeImages
    \/ PreviewRow
    \/ ShowPreview
    \/ Generate
    \/ Rerun
    \/ Upload
    \/ RemoveFile
    \/ SetHeader
    \/ Deselect
    \/ SelectMore
    \/ ToggleImages
    \/ PressGenerate

\* A new session: no widget has a state, and the first run starts.
Init ==
    /\ fv_pc = "idle"
    /\ fv_val = NoneV
    /\ fv_fmt = <<>>
    /\ fv_out = [raised |-> FALSE, text |-> <<>>]
    /\ hd_pc = "idle"
    /\ hd_grid = <<>>
    /\ hd_out = 0
    /\ uploaded = "none"
    /\ hdrW = NoHdr
    /\ colsW = NoCols
    /\ imgW = FALSE
    /\ clicked = FALSE
    /\ user_hdr = NoUser
    /\ pc = "mapping"
    /\ mapping_df = <<>>
    /\ ws = <<>>
    /\ auto_header = 0
    /\ header_row = 0
    /\ df = NoDf
    /\ cols = <<>>
    /\ use_images = FALSE
    /\ merged = <<>>
    /\ preview_rows = <<>>
    /\ excel_rs = <<>>
    /\ checks = <<>>
    /\ preview_shown = FALSE
    /\ html = NoHtml
    /\ exported = FALSE
    /\ msg = ""
    /\ err = ""
    /\ rendered = {}

Spec == Init /\ [][Next]_vars

\* One call of format_value on each value and format string of the bounds.
InitFormat ==
    /\ fv_pc = "call"
    /\ fv_val \in Values
    /\ fv_fmt \in Formats
    /\ fv_out = [raised |-> FALSE, text |-> <<>>]
    /\ hd_pc = "idle"
    /\ hd_grid = <<>>
    /\ hd_out = 0
    /\ uploaded = "none"
    /\ hdrW = NoHdr
    /\ colsW = NoCols
    /\ imgW = FALSE
    /\ clicked = FALSE
    /\ user_hdr = NoUser
    /\ pc = "idle"
    /\ mapping_df = <<>>
    /\ ws = <<>>
    /\ auto_header = 0
    /\ header_row = 0
    /\ df = NoDf
    /\ cols = <<>>
    /\ use_images = FALSE
    /\ merged = <<>>
    /\ preview_rows = <<>>
    /\ excel_rs = <<>>
    /\ checks = <<>>
    /\ preview_shown = FALSE
    /\ html = NoHtml
    /\ exported = FALSE
    /\ msg = ""
    /\ err = ""
    /\ rendered = {}

SpecFormat == InitFormat /\ [][FormatNext]_vars

\* One run of the header scan on each grid of the bounds.
InitDetect ==
    /\ hd_pc = "scan"
    /\ hd_grid \in Grids
    /\ hd_out = 0
    /\ fv_pc = "idle"
    /\ fv_val = NoneV
    /\ fv_fmt = <<>>
    /\ fv_out = [raised |-> FALSE, text |-> <<>>]
    /\ uploaded = "none"
    /\ hdrW = NoHdr
    /\ colsW = NoCols
    /\ imgW = FALSE
    /\ clicked = FALSE
    /\ user_hdr = NoUser
    /\ pc = "idle"
    /\ mapping_df = <<>>
    /\ ws = <<>>
    /\ auto_header = 0
    /\ header_row = 0
    /\ df = NoDf
    /\ cols = <<>>
    /\ use_images = FALSE
    /\ merged = <<>>
    /\ preview_rows = <<>>
    /\ excel_rs = <<>>
    /\ checks = <<>>
    /\ preview_shown = FALSE
    /\ html = NoHtml
    /\ exported = FALSE
    /\ msg = ""
    /\ err = ""
    /\ rendered = {}

SpecDetect == InitDetect /\ [][DetectNext]_vars

\* ---------------------------------------------------------------- claims
\* The cells of a row that are neither absent nor the empty string.
FilledCells(vals) == {k \in 1..Len(vals) : vals[k] # NoneV /\ vals[k] # StrV(<<>>)}
Majority(vals) == Len(vals) > 0 /\ 2 * Cardinality(FilledCells(vals)) > Len(vals)
ScannedRow(i) == WsRow(hd_grid, i)

\* C1: the detected header row is the first row of the scanned window that
\* has a width L > 0 and more than L/2 non-empty cells, whatever qualifies
\* below it.
C1_FirstQualifyingRow ==
    hd_pc = "detected" =>
        \A i \in 1..ScanRows :
            (Majority(ScannedRow(i)) /\ \A j \in 1..(i - 1) : ~Majority(ScannedRow(j)))
                => hd_out = i

\* C1's case: the second row is detected although the first holds a cell.
C1_Witness ==
    /\ hd_pc = "detected"
    /\ Len(hd_grid) = 2
    /\ FilledCells(hd_grid[1]) # {}
    /\ ~Majority(hd_grid[1])
    /\ Majority(hd_grid[2])
    /\ hd_out = 2

\* C2: the scan always yields a row of the window, and yields the default, 1,
\* when no row qualifies; a row of width 0 does not qualify.
C2_DefaultWhenNoneQualifies ==
    hd_pc = "detected" =>
        /\ hd_out \in 1..ScanRows
        /\ (\A i \in 1..ScanRows : ~Majority(ScannedRow(i))) => hd_out = 1

\* C2's case: a row of width 0 below a row that holds a cell without a
\* majority; the default is returned.
C2_Witness ==
    /\ hd_pc = "detected"
    /\ Len(hd_grid) = 2
    /\ Len(hd_grid[1]) = 2
    /\ Cardinality(FilledCells(hd_grid[1])) = 1
    /\ hd_grid[2] = <<>>
    /\ hd_out = 1

SignsIn(text) == {i \in 1..Len(text) : text[i] \in CurrencySigns}
FirstSign(fmt) == IF Contains(fmt, Pound) THEN Pound
                  ELSE IF Contains(fmt, Euro) THEN Euro
                  ELSE Dollar

\* C3: an absent value gives the empty text for any format; a numeric value
\* gets the pound sign when the format holds one, else the euro sign when the
\* format holds one, else the dollar sign when the format holds one, and
\* never more than one sign.
C3_CurrencyPriority ==
    fv_pc = "returned" =>
        /\ fv_val = NoneV => fv_out.text = <<>>
        /\ (fv_val # NoneV /\ FloatOf(fv_val).ok) =>
              IF SignsIn(fv_fmt) # {}
              THEN /\ fv_out.text = <<FirstSign(fv_fmt)>> \o Fixed2(FloatOf(fv_val).n)
                   /\ SignsIn(fv_out.text) = {1}
              ELSE SignsIn(fv_out.text) = {}

\* C3's case: a float under a format that holds all three signs, the pound
\* sign last.
C3_Witness ==
    /\ fv_pc = "returned"
    /\ fv_val = FloatV(1234500)
    /\ fv_fmt = <<Dollar, Euro, Pound>>
    /\ fv_out.text = <<Pound, "1", ",", "2", "3", "4", ".", "5", "0">>

\* C4: no call raises; under a currency format a value that float() rejects
\* comes back as its plain text, with no currency sign.
C4_CoercionFailureIsPlainText ==
    fv_pc = "returned" =>
        /\ ~fv_out.raised
        /\ (fv_val # NoneV /\ SignsIn(fv_fmt) # {} /\ ~FloatOf(fv_val).ok) =>
              /\ fv_out.text = Str(fv_val)
              /\ SignsIn(fv_out.text) = {}

\* C4's case: a text that is no number under a pound format.
C4_Witness ==
    /\ fv_pc = "returned"
    /\ fv_val = StrV(<<"W", "-", "1">>)
    /\ Contains(fv_fmt, Pound)
    /\ ~fv_out.raised
    /\ fv_out.text = <<"W", "-", "1">>

\* C5 as the specification states it: without a currency sign, two decimals
\* exactly for the numbers that are not integers, the plain text for every
\* other value, integer-valued numbers included.
C5_AsStated ==
    (fv_pc = "returned" /\ fv_val # NoneV /\ SignsIn(fv_fmt) = {}) =>
        IF fv_val.t = "float" /\ fv_val.n % 1000 # 0
        THEN fv_out.text = Fixed2(fv_val.n)
        ELSE fv_out.text = Str(fv_val)

\* C5, amended: without a currency sign, two decimals exactly for the values
\* of type float, integer-valued or not; the plain text for every other value.
C5_FloatsGetTwoDecimals ==
    (fv_pc = "returned" /\ fv_val # NoneV /\ SignsIn(fv_fmt) = {}) =>
        IF fv_val.t = "float"
        THEN fv_out.text = Fixed2(fv_val.n)
        ELSE fv_out.text = Str(fv_val)

\* C5's case: the float 3.0 under a format with no currency sign.
C5_Witness ==
    /\ fv_pc = "returned"
    /\ fv_val = FloatV(3000)
    /\ SignsIn(fv_fmt) = {}
    /\ fv_out.text = <<"3", ".", "0", "0">>

\* The image cell in front of the cells of the selected columns.
Lead == IF use_images THEN 1 ELSE 0

C7_ImageOnlyWhenReachable ==
    \A k \in 1..Len(preview_rows) :
        /\ ~use_images => /\ Len(preview_rows[k]) = Len(cols)
                          /\ checks[k] = NotCalled
        /\ use_images =>
              /\ preview_rows[k][1] # <<>> =>
                    /\ merged[k][Len(cols) + 1].t = "str"
                    /\ checks[k].kind = "status"
                    /\ checks[k].status < 400
              /\ (checks[k].kind = "error" \/ checks[k].status >= 400) =>
                    preview_rows[k][1] = <<>>
              /\ err = ""

\* C7's case: one row whose check succeeded and one whose request failed.
C7_Witness ==
    /\ use_images
    /\ \E k \in 1..Len(preview_rows) :
          checks[k].kind = "status" /\ checks[k].status = 399 /\ preview_rows[k][1] # <<>>
    /\ \E k \in 1..Len(preview_rows) :
          checks[k].kind = "error" /\ preview_rows[k][1] = <<>>

\* C8: every run with a non-empty column selection, images on or off, ends
\* with one table row per data row, each of one cell per selected column in
\* selection order, behind one image cell exactly when images are on; the
\* merge does not fail.
C8_TableShape ==
    (pc \in Terminal /\ cols # <<>>) =>
        /\ pc = "done"
        /\ Len(preview_rows) = Len(df.rows)
        /\ \A k \in 1..Len(preview_rows) :
              /\ Len(preview_rows[k]) = Len(cols) + Lead
              /\ SubSeq(preview_rows[k], 1 + Lead, Len(cols) + Lead)
                    = RowCells(ws, header_row, cols, excel_rs[k])
        /\ html.made => html.rows = preview_rows

\* C9: a lookup table that cannot be used, a missing or unreadable upload and
\* an empty selection each end the run by a message of the application and a
\* stop; a preview needs a valid lookup table, a loaded file and a selected
\* column; the HTML and the downloads need the button too.
C9_FailuresStopWithMessage ==
    /\ (pc \in Terminal /\ mapping_df = <<>>) => (pc = "stopped" /\ msg # "")
    /\ (pc \in Terminal /\ mapping_df # <<>> /\ uploaded = "none")
          => (pc = "stopped" /\ msg # "")
    /\ (pc \in Terminal /\ uploaded = "corrupt") => (pc = "stopped" /\ msg # "")
    /\ (pc \in Terminal /\ df.ok /\ cols = <<>>) => (pc = "stopped" /\ msg # "")
    /\ pc = "stopped" => ~preview_shown /\ ~html.made /\ ~exported
    /\ preview_shown => (mapping_df # <<>> /\ ws # <<>> /\ cols # <<>>)
    /\ (html.made \/ exported) => (preview_shown /\ clicked)

\* C10: the cells of the k-th output row are those of the worksheet row the
\* k-th kept data row was parsed from.
C10_RowAlignment ==
    \A k \in 1..Len(preview_rows) :
        SubSeq(preview_rows[k], 1 + Lead, Len(cols) + Lead)
            = RowCells(ws, header_row, cols, header_row + 1 + df.index[k])

====
